---- MODULE Spec2Model ----
(***************************************************************************)
(* Model of the migrations command line (src/api/umzug/cli.js) and of the  *)
(* migration engine it drives.  One process run is: Launch (argv is read   *)
(* and the options are parsed), the runTask switch, the handlers of the    *)
(* verb with one step per migration unit, and the process exit through the *)
(* .then or the .catch handler.  The execution store outlives the process. *)
(*                                                                         *)
(* Strings are sequences of tokens (a token is a piece of text), so that   *)
(* concatenation, padStart and number formatting are computed.  JavaScript *)
(* values are records [type, str, num] (undefined, a string or a number).  *)
(* Unit ids are the numbers 1..NumUnits; the id string of unit i is the    *)
(* decimal text of i, so that the order of the ids is the numeric order.   *)
(***************************************************************************)
EXTENDS Integers, Sequences, FiniteSets, TLC

\* Number of migration units in the migrations directory.
NumUnits == 3

(* ------------------------------ values --------------------------------- *)

Undefined == [type |-> "undefined", str |-> <<>>, num |-> 0]

Str(s) == [type |-> "string", str |-> s, num |-> 0]

Num(n) == [type |-> "number", str |-> <<>>, num |-> n]

\* JavaScript truthiness of undefined, of a string and of a number.
Truthy(v) ==
    \/ v.type = "string" /\ v.str # <<>>
    \/ v.type = "number" /\ v.num # 0

Range(s) == {s[i] : i \in 1..Len(s)}

DigitChar == <<"0", "1", "2", "3", "4", "5", "6", "7", "8", "9">>

\* Number.prototype.toString() of a natural number.
RECURSIVE toString(_)
toString(n) ==
    IF n < 10 THEN <<DigitChar[n + 1]>>
    ELSE toString(n \div 10) \o <<DigitChar[(n % 10) + 1]>>

\* String.prototype.padStart with a one-character pad string.
RECURSIVE padStart(_, _, _)
padStart(s, targetLength, padString) ==
    IF Len(s) >= targetLength THEN s
    ELSE padStart(<<padString>> \o s, targetLength, padString)

\* Array.prototype.join('') of an array of strings.
RECURSIVE join(_)
join(parts) ==
    IF parts = <<>> THEN <<>> ELSE Head(parts) \o join(Tail(parts))

(* ------------------------------ the verbs ------------------------------ *)

TCheck == Str(<<"db:migrate:check">>)
TMigrate == Str(<<"db:migrate">>)
TStatus == Str(<<"db:migrate:status">>)
THistory == Str(<<"db:migrate:history">>)
TUndo == Str(<<"db:migrate:undo">>)
TUndoAll == Str(<<"db:migrate:undo:all">>)
TReset == Str(<<"db:reset">>)
TGenerate == Str(<<"migration:generate">>)

KnownTasks ==
    {TCheck, TMigrate, TStatus, THistory, TUndo, TUndoAll, TReset, TGenerate}

\* argv[2]: a known verb, an unknown verb, the empty string, or nothing.
Argv2 == KnownTasks \cup {Str(<<"db:frobnicate">>), Str(<<>>), Undefined}

\* The id string of unit i (its file name without the extension).
IdOf(i) == toString(i)

Units == 1..NumUnits

\* argv[3]: nothing, the empty string, the id of a unit, the text "0", or a
\* name that is no unit id.
Argv3 ==
    {Undefined, Str(<<>>), Str(<<"0">>), Str(<<"add-index">>)}
        \cup {Str(IdOf(i)) : i \in Units}

\* The options object built from argv.
ParseOptions(t, a3) ==
    [migrateTo |-> IF t = TMigrate THEN a3 ELSE Undefined,
     undoTo |-> IF t = TUndo THEN a3 ELSE Undefined,
     migrationName |-> IF t = TGenerate THEN a3 ELSE Undefined]

\* The runTask switch: the handler that statement number st of the case of
\* verb t calls ("return" once the case is finished).
Dispatch_upFirst(t, st) ==
    CASE t = TCheck /\ st = 1 -> "checkMigrations"
      [] t = TMigrate /\ st = 1 -> "migrate"
      [] t = TStatus /\ st = 1 -> "printPending"
      [] t = THistory /\ st = 1 -> "printExecuted"
      [] t = TUndo /\ st = 1 -> "undo"
      [] t = TUndoAll /\ st = 1 -> "undo"
      [] t = TReset /\ st = 1 -> "migrate"
      [] t = TReset /\ st = 2 -> "undo"
      [] t = TGenerate /\ st = 1 -> "generate"
      [] t \notin KnownTasks /\ st = 1 -> "default"
      [] OTHER -> "return"

Dispatch(t, st) ==
    CASE t = TCheck /\ st = 1 -> "checkMigrations"
      [] t = TMigrate /\ st = 1 -> "migrate"
      [] t = TStatus /\ st = 1 -> "printPending"
      [] t = THistory /\ st = 1 -> "printExecuted"
      [] t = TUndo /\ st = 1 -> "undo"
      [] t = TUndoAll /\ st = 1 -> "undo"
      [] t = TReset /\ st = 1 -> "undo"
      [] t = TReset /\ st = 2 -> "migrate"
      [] t = TGenerate /\ st = 1 -> "generate"
      [] t \notin KnownTasks /\ st = 1 -> "default"
      [] OTHER -> "return"

\* The argument runTask passes to this.migrate.
MigrateArg(t, opts) == IF t = TMigrate THEN opts.migrateTo ELSE Undefined

\* The argument runTask passes to this.undo.
UndoArg(t, opts) == IF t = TUndo THEN opts.undoTo ELSE Num(0)

(* ------------------------------ the engine ----------------------------- *)

\* Loader.listAll(): the units in ascending id order.
listAll == [i \in 1..NumUnits |-> i]

\* The ids of a set, as the ascending sequence.
RECURSIVE Ascending(_)
Ascending(S) ==
    IF S = {} THEN <<>>
    ELSE LET m == CHOOSE x \in S : \A y \in S : x <= y
         IN <<m>> \o Ascending(S \ {m})

RECURSIVE Reverse(_)
Reverse(s) == IF s = <<>> THEN <<>> ELSE Reverse(Tail(s)) \o <<Head(s)>>

\* Store.executed(): the records in id order, whatever their insertion order.
executed(records) == Ascending(Range(records))

\* Engine.pending(): the loaded units without an execution record.
pending(records) == SelectSeq(listAll, LAMBDA u : u \notin Range(records))

\* Store.logMigration: a record is appended (none when one is there).
logMigration(records, id) ==
    IF id \in Range(records) THEN records ELSE Append(records, id)

\* Store.unlogMigration: the record of id is removed.
unlogMigration(records, id) == SelectSeq(records, LAMBDA x : x # id)

NoCall == [op |-> "none", found |-> TRUE, plan |-> <<>>, todo |-> <<>>,
           done |-> <<>>]

\* Engine.up(options): the units to apply, in order; found is FALSE when
\* `to` names no pending unit.
UpPlan(records, to) ==
    LET p == pending(records)
        hit == IF to.type = "string"
               THEN {k \in 1..Len(p) : IdOf(p[k]) = to.str} ELSE {}
    IN IF to = Undefined THEN [found |-> TRUE, plan |-> p]
       ELSE IF hit = {} THEN [found |-> FALSE, plan |-> <<>>]
       ELSE [found |-> TRUE,
             plan |-> SubSeq(p, 1, CHOOSE k \in hit : \A j \in hit : k <= j)]

\* Engine.down(options): the units to revert, in order (latest id first).
DownPlan(records, to) ==
    LET e == executed(records)
        hit == IF to.type = "string"
               THEN {k \in 1..Len(e) : IdOf(e[k]) = to.str} ELSE {}
    IN IF to = Undefined
       THEN [found |-> TRUE,
             plan |-> IF e = <<>> THEN <<>> ELSE <<e[Len(e)]>>]
       ELSE IF to = Num(0) THEN [found |-> TRUE, plan |-> Reverse(e)]
       ELSE IF hit = {} THEN [found |-> FALSE, plan |-> <<>>]
       ELSE [found |-> TRUE,
             plan |-> Reverse(SubSeq(e, CHOOSE k \in hit : TRUE, Len(e)))]

\* What a call of the engine or of the store may fail with before any unit
\* is run.
EngineFaults == {"none", "LoadError", "StoreError"}

\* How the step of one unit may end.
UnitOutcomes == {"ok", "UnitExecutionError", "StoreError"}

(* ------------------------------ the state ------------------------------ *)

VARIABLES
    store,      \* the execution records, in insertion order (durable)
    pc,         \* where the process is
    task,       \* process.argv[2]
    options,    \* the options object
    stage,      \* the number of the next statement of the runTask case
    call,       \* the engine call in progress, or the last one
    err,        \* the error thrown, once one is
    out,        \* the lines written to the console, in order
    exit,       \* whether the process has exited, and its exit code
    file,       \* the migration file this process wrote
    now,        \* the instant new Date() gave to generate
    startStore, \* the store when the process started
    prev        \* whether the run before was a whole up() that succeeded

vars == <<store, pc, task, options, stage, call, err, out, exit, file, now,
          startStore, prev>>

NoExit == [done |-> FALSE, code |-> 0]

\* process.exit(code): the code given, 0 when none is.
processExit(code) ==
    [done |-> TRUE, code |-> IF code = Undefined THEN 0 ELSE code.num]

NoErr == [name |-> "none", message |-> <<>>, unit |-> 0]

Error(name, message, unit) ==
    [name |-> name, message |-> message, unit |-> unit]

NoDate == [year |-> 0, month |-> 0, date |-> 0, hours |-> 0, minutes |-> 0,
           seconds |-> 0]

NoFile == [exists |-> FALSE, name |-> <<>>, content |-> <<>>]

\* One console.log: a text, with the number, the unit and the string in it.
Line(text, n, id, msg) == [text |-> text, n |-> n, id |-> id, msg |-> msg]

\* The duplicate-free sequences over S: the stores earlier runs can leave.
RECURSIVE Arrangements(_)
Arrangements(S) ==
    {<<>>} \cup UNION {{<<x>> \o r : r \in Arrangements(S \ {x})} : x \in S}

Init ==
    /\ store \in Arrangements(Units)
    /\ pc = "shell"
    /\ task = Undefined
    /\ options = ParseOptions(Undefined, Undefined)
    /\ stage = 1
    /\ call = NoCall
    /\ err = NoErr
    /\ out = <<>>
    /\ exit = NoExit
    /\ file = NoFile
    /\ now = NoDate
    /\ startStore = store
    /\ prev = FALSE

(* ------------------------------ the handlers --------------------------- *)

\* The listeners the constructor registers: one line per engine event.
OnEvent(kind, id) == Line(kind, 0, id, <<>>)

\* A throw inside runTask: the promise is rejected with e.
Throw(e) == err' = e /\ pc' = "catch"

EngineError(fault) == Error(fault, <<fault, " while reading the migrations">>, 0)

\* node cli.js <argv[2]> <argv[3]>: the options are parsed, runTask starts.
Launch ==
    /\ pc \in {"shell", "exited"}
    /\ \E a2 \in Argv2, a3 \in Argv3 :
           /\ task' = a2
           /\ options' = ParseOptions(a2, a3)
    /\ prev' = (task = TMigrate /\ options.migrateTo = Undefined
                 /\ exit = processExit(Undefined))
    /\ pc' = "runTask"
    /\ stage' = 1
    /\ call' = NoCall
    /\ err' = NoErr
    /\ out' = <<>>
    /\ exit' = NoExit
    /\ file' = NoFile
    /\ now' = NoDate
    /\ startStore' = store
    /\ UNCHANGED store

\* checkMigrations: the argument of process.exit.
CheckExitArg_moreThanOne(migrations) ==
    IF Len(migrations) > 1 THEN Num(1) ELSE Undefined

CheckExitArg(migrations) ==
    IF Len(migrations) > 0 THEN Num(1) ELSE Undefined

CheckReport(migrations) ==
    IF Len(migrations) > 0
    THEN <<Line("You have pending migrations.", Len(migrations), 0, <<>>)>>
    ELSE <<>>

CheckMigrations ==
    /\ pc = "runTask"
    /\ Dispatch(task, stage) = "checkMigrations"
    /\ \E fault \in EngineFaults :
           IF fault # "none"
           THEN Throw(EngineError(fault)) /\ UNCHANGED <<out, exit>>
           ELSE LET migrations == pending(store)
                IN /\ out' = out \o CheckReport(migrations)
                   /\ exit' = processExit(CheckExitArg(migrations))
                   /\ pc' = "exited"
                   /\ UNCHANGED err
    /\ UNCHANGED <<store, task, options, stage, call, file, now, startStore, prev>>

\* migrate(destination): the engine call made.
MigrateCall_noTo(destination) == [op |-> "up", to |-> Undefined]

MigrateCall(destination) ==
    [op |-> "up",
     to |-> IF destination # Undefined THEN destination ELSE Undefined]

MigrateReport(migrations) ==
    IF Len(migrations) > 0
    THEN Line("Executed migrations.", Len(migrations), 0, <<>>)
    ELSE Line("No migrations were executed.", 0, 0, <<>>)

\* migrate, to the await of umzug.up: the engine computes what to apply.
Migrate ==
    /\ pc = "runTask"
    /\ Dispatch(task, stage) = "migrate"
    /\ \E fault \in EngineFaults :
           LET c == MigrateCall(MigrateArg(task, options))
               p == UpPlan(store, c.to)
           IN IF fault # "none"
              THEN Throw(EngineError(fault)) /\ UNCHANGED call
              ELSE IF ~p.found
              THEN /\ Throw(Error("NotFoundError",
                                  <<"Unable to find migration: ">> \o c.to.str, 0))
                   /\ UNCHANGED call
              ELSE /\ call' = [op |-> c.op, found |-> TRUE, plan |-> p.plan,
                               todo |-> p.plan, done |-> <<>>]
                   /\ pc' = "up"
                   /\ UNCHANGED err
    /\ UNCHANGED <<store, task, options, stage, out, exit, file, now,
                   startStore, prev>>

\* The engine runs the next unit's up: the events, and the record on success.
UnitUp ==
    /\ pc = "up"
    /\ call.todo # <<>>
    /\ LET u == Head(call.todo)
       IN \E o \in UnitOutcomes :
              IF o = "ok"
              THEN /\ store' = logMigration(store, u)
                   /\ out' = out \o <<OnEvent("migrating", u),
                                      OnEvent("migrated", u)>>
                   /\ call' = [call EXCEPT !.todo = Tail(@),
                                           !.done = Append(@, u)]
                   /\ UNCHANGED <<pc, err>>
              ELSE /\ out' = Append(out, OnEvent("migrating", u))
                   /\ Throw(Error(o, <<o, " in up of ">> \o IdOf(u), u))
                   /\ UNCHANGED <<store, call>>
    /\ UNCHANGED <<task, options, stage, exit, file, now, startStore, prev>>

\* umzug.up has resolved: migrate prints the count and returns.
MigrateReturn ==
    /\ pc = "up"
    /\ call.todo = <<>>
    /\ out' = Append(out, MigrateReport(call.done))
    /\ stage' = stage + 1
    /\ pc' = "runTask"
    /\ UNCHANGED <<store, task, options, call, err, exit, file, now,
                   startStore, prev>>

\* undo(destination): the engine call made.
UndoCall_all(destination) ==
    [op |-> "down",
     to |-> IF destination # Undefined THEN destination ELSE Num(0)]

UndoCall_truthy(destination) ==
    [op |-> "down",
     to |-> IF Truthy(destination) THEN destination ELSE Undefined]

UndoCall(destination) ==
    [op |-> "down",
     to |-> IF destination # Undefined THEN destination ELSE Undefined]

UndoReport(migrations) ==
    IF Len(migrations) > 0
    THEN Line("Reverted migrations.", Len(migrations), 0, <<>>)
    ELSE Line("No migrations were reverted.", 0, 0, <<>>)

\* undo, to the await of umzug.down: the engine computes what to revert.
Undo ==
    /\ pc = "runTask"
    /\ Dispatch(task, stage) = "undo"
    /\ \E fault \in EngineFaults :
           LET c == UndoCall(UndoArg(task, options))
               p == DownPlan(store, c.to)
           IN IF fault # "none"
              THEN Throw(EngineError(fault)) /\ UNCHANGED call
              ELSE IF ~p.found
              THEN /\ Throw(Error("NotFoundError",
                                  <<"Unable to find migration: ">> \o c.to.str, 0))
                   /\ UNCHANGED call
              ELSE /\ call' = [op |-> c.op, found |-> TRUE, plan |-> p.plan,
                               todo |-> p.plan, done |-> <<>>]
                   /\ pc' = "down"
                   /\ UNCHANGED err
    /\ UNCHANGED <<store, task, options, stage, out, exit, file, now,
                   startStore, prev>>

\* The engine runs the next unit's down: the events, and the record removed
\* on success.
UnitDown ==
    /\ pc = "down"
    /\ call.todo # <<>>
    /\ LET u == Head(call.todo)
       IN \E o \in UnitOutcomes :
              IF o = "ok"
              THEN /\ store' = unlogMigration(store, u)
                   /\ out' = out \o <<OnEvent("reverting", u),
                                      OnEvent("reverted", u)>>
                   /\ call' = [call EXCEPT !.todo = Tail(@),
                                           !.done = Append(@, u)]
                   /\ UNCHANGED <<pc, err>>
              ELSE /\ out' = Append(out, OnEvent("reverting", u))
                   /\ Throw(Error(o, <<o, " in down of ">> \o IdOf(u), u))
                   /\ UNCHANGED <<store, call>>
    /\ UNCHANGED <<task, options, stage, exit, file, now, startStore, prev>>

\* umzug.down has resolved: undo prints the count and returns.
UndoReturn ==
    /\ pc = "down"
    /\ call.todo = <<>>
    /\ out' = Append(out, UndoReport(call.done))
    /\ stage' = stage + 1
    /\ pc' = "runTask"
    /\ UNCHANGED <<store, task, options, call, err, exit, file, now,
                   startStore, prev>>

\* _printMigrations: one numbered line per migration (file name less '.js').
printMigrations_dropLast(migrations) ==
    [k \in 1..(Len(migrations) - 1) |-> Line("item", k, migrations[k], <<>>)]

printMigrations(migrations) ==
    [k \in 1..Len(migrations) |-> Line("item", k, migrations[k], <<>>)]

PendingReport(migrations) ==
    IF Len(migrations) > 0
    THEN <<Line("Pending migrations:", 0, 0, <<>>)>>
             \o printMigrations(migrations)
    ELSE <<Line("No pending migrations.", 0, 0, <<>>)>>

ExecutedReport(migrations) ==
    IF Len(migrations) > 0
    THEN <<Line("Executed migrations:", 0, 0, <<>>)>>
             \o printMigrations(migrations)
    ELSE <<Line("No executed migrations.", 0, 0, <<>>)>>

PrintPending ==
    /\ pc = "runTask"
    /\ Dispatch(task, stage) = "printPending"
    /\ \E fault \in EngineFaults :
           IF fault # "none"
           THEN Throw(EngineError(fault)) /\ UNCHANGED <<out, stage>>
           ELSE /\ out' = out \o PendingReport(pending(store))
                /\ stage' = stage + 1
                /\ UNCHANGED <<pc, err>>
    /\ UNCHANGED <<store, task, options, call, exit, file, now, startStore, prev>>

PrintExecuted ==
    /\ pc = "runTask"
    /\ Dispatch(task, stage) = "printExecuted"
    /\ \E fault \in {"none", "StoreError"} :
           IF fault # "none"
           THEN Throw(EngineError(fault)) /\ UNCHANGED <<out, stage>>
           ELSE /\ out' = out \o ExecutedReport(executed(store))
                /\ stage' = stage + 1
                /\ UNCHANGED <<pc, err>>
    /\ UNCHANGED <<store, task, options, call, exit, file, now, startStore, prev>>

\* The instants generate is run at: the UTC fields new Date() gives
\* (month as getUTCMonth gives it, from 0).
Dates ==
    {[year |-> 1970, month |-> 0, date |-> 1, hours |-> 0, minutes |-> 0,
      seconds |-> 0],
     [year |-> 2023, month |-> 8, date |-> 9, hours |-> 9, minutes |-> 9,
      seconds |-> 9],
     [year |-> 2024, month |-> 9, date |-> 10, hours |-> 10, minutes |-> 10,
      seconds |-> 10],
     [year |-> 2026, month |-> 10, date |-> 2, hours |-> 6, minutes |-> 27,
      seconds |-> 5],
     [year |-> 2024, month |-> 1, date |-> 29, hours |-> 23, minutes |-> 0,
      seconds |-> 59],
     [year |-> 9999, month |-> 11, date |-> 31, hours |-> 23, minutes |-> 59,
      seconds |-> 59]}

\* _format(number): two digits, zero-padded.
format_noPad(number) == toString(number)

format(number) == padStart(toString(number), 2, "0")

\* The timestamp generate builds from the UTC fields of the date.
timestamp(date) ==
    join(<<toString(date.year), format(date.month + 1), format(date.date),
           format(date.hours), format(date.minutes), format(date.seconds)>>)

\* The name of the file generate writes.
migrationFileName(date, migrationName) ==
    timestamp(date) \o <<"-">> \o migrationName \o <<".js">>

\* migrations/migration.sample.js, as the pieces the copy is made of.
Template == <<"'use strict';", "up: async () => {},", "down: async () => {}">>

\* How the copy ends: the write stream finishes, or a stream fails.
CopyOutcomes == {"finish", "read error", "write error"}

\* The target after a failed copy: not created, or created with the part
\* of the template that was written before the failure.
FailedTargets(name) ==
    {NoFile} \cup {[exists |-> TRUE, name |-> name,
                    content |-> SubSeq(Template, 1, k)] :
                       k \in 0..(Len(Template) - 1)}

\* The migration:generate case: the name check, then generate.
Generate ==
    /\ pc = "runTask"
    /\ Dispatch(task, stage) = "generate"
    /\ IF ~Truthy(options.migrationName)
       THEN /\ Throw(Error("Error", <<"Migration name should be specified.">>, 0))
            /\ UNCHANGED <<out, stage, file, now>>
       ELSE \E date \in Dates, o \in CopyOutcomes :
                LET name == migrationFileName(date, options.migrationName.str)
                IN /\ now' = date
                   /\ IF o = "finish"
                      THEN /\ file' = [exists |-> TRUE, name |-> name,
                                       content |-> Template]
                           /\ out' = Append(out,
                                  Line("Migration file has been created.", 0, 0,
                                       name))
                           /\ stage' = stage + 1
                           /\ UNCHANGED <<pc, err>>
                      ELSE /\ file' \in FailedTargets(name)
                           /\ Throw(Error("Error", <<o>>, 0))
                           /\ UNCHANGED <<out, stage>>
    /\ UNCHANGED <<store, task, options, call, exit, startStore, prev>>

Usage == Line("Available tasks:", 0, 0, <<>>)

\* The default case of the switch: what it throws, or what it prints.
DefaultCase_noThrow(t) ==
    [throws |-> FALSE, error |-> NoErr, lines |-> <<Usage>>]

DefaultCase(t) ==
    IF Truthy(t)
    THEN [throws |-> TRUE, error |-> Error("Error", <<"Task not found.">>, 0),
          lines |-> <<>>]
    ELSE [throws |-> FALSE, error |-> NoErr, lines |-> <<Usage>>]

Default ==
    /\ pc = "runTask"
    /\ Dispatch(task, stage) = "default"
    /\ LET d == DefaultCase(task)
       IN IF d.throws
          THEN Throw(d.error) /\ UNCHANGED <<out, stage>>
          ELSE /\ out' = out \o d.lines
               /\ stage' = stage + 1
               /\ UNCHANGED <<pc, err>>
    /\ UNCHANGED <<store, task, options, call, exit, file, now, startStore, prev>>

\* .then(() => process.exit())
OnFulfilled_noExit == NoExit

OnFulfilled == processExit(Undefined)

\* .catch(error => { console.log('Error:', error.message); process.exit(1) })
OnRejected_exitZero(error) ==
    [lines |-> <<Line("Error:", 0, 0, error.message)>>,
     exit |-> processExit(Undefined)]

OnRejected(error) ==
    [lines |-> <<Line("Error:", 0, 0, error.message)>>,
     exit |-> processExit(Num(1))]

\* runTask has resolved.
Then ==
    /\ pc = "runTask"
    /\ Dispatch(task, stage) = "return"
    /\ exit' = OnFulfilled
    /\ pc' = "exited"
    /\ UNCHANGED <<store, task, options, stage, call, err, out, file, now,
                   startStore, prev>>

\* runTask has rejected.
Catch ==
    /\ pc = "catch"
    /\ out' = out \o OnRejected(err).lines
    /\ exit' = OnRejected(err).exit
    /\ pc' = "exited"
    /\ UNCHANGED <<store, task, options, stage, call, err, file, now,
                   startStore, prev>>

Next ==
    \/ Launch
    \/ CheckMigrations
    \/ Migrate
    \/ UnitUp
    \/ MigrateReturn
    \/ Undo
    \/ UnitDown
    \/ UndoReturn
    \/ PrintPending
    \/ PrintExecuted
    \/ Generate
    \/ Default
    \/ Then
    \/ Catch

Spec == Init /\ [][Next]_vars

(* ------------------------------ the claims ----------------------------- *)

Exited == pc = "exited"

ExitedWith(code) == pc = "exited" /\ exit = [done |-> TRUE, code |-> code]

ErrorLine(e) == Line("Error:", 0, 0, e.message)

IsPrefix(a, b) == Len(a) <= Len(b) /\ SubSeq(b, 1, Len(a)) = a

IsSuffix(a, b) ==
    Len(a) <= Len(b) /\ SubSeq(b, Len(b) - Len(a) + 1, Len(b)) = a

\* The position of unit u in the sequence q, 0 when it is not in it.
IndexOf(q, u) ==
    IF u \in Range(q) THEN CHOOSE k \in 1..Len(q) : q[k] = u ELSE 0

HasLine(text) == \E k \in 1..Len(out) : out[k].text = text

\* The console lines of units applied one after the other, each finished
\* before the next starts.
UpEvents(done) ==
    join([k \in 1..Len(done) |->
             <<Line("migrating", 0, done[k], <<>>),
               Line("migrated", 0, done[k], <<>>)>>])

DownEvents(done) ==
    join([k \in 1..Len(done) |->
             <<Line("reverting", 0, done[k], <<>>),
               Line("reverted", 0, done[k], <<>>)>>])

\* C1: when the up of unit U fails during `db:migrate`, the units applied
\* are exactly those of the pending sequence before U, the store is the
\* store of before with exactly those units added (U and the later units are
\* not logged, nothing is rolled back), and the process prints the error and
\* exits with code 1.
C1_UpFailureMidRun ==
    (task = TMigrate /\ call.op = "up" /\ err.name = "UnitExecutionError")
        => LET U == err.unit
               k == IndexOf(call.plan, U)
           IN /\ pc \in {"catch", "exited"}
              /\ IsPrefix(call.plan, pending(startStore))
              /\ k > 0
              /\ call.done = SubSeq(call.plan, 1, k - 1)
              /\ store = startStore \o call.done
              /\ \A j \in k..Len(call.plan) : call.plan[j] \notin Range(store)
              /\ SubSeq(out, 1, 2 * Len(call.done)) = UpEvents(call.done)
              /\ Exited => /\ exit = [done |-> TRUE, code |-> 1]
                           /\ out[Len(out)] = ErrorLine(err)
                           /\ ~HasLine("Executed migrations.")

C1_Witness ==
    /\ ExitedWith(1)
    /\ task = TMigrate
    /\ options.migrateTo = Undefined
    /\ startStore = <<>>
    /\ err.name = "UnitExecutionError"
    /\ err.unit = 2
    /\ call.done = <<1>>
    /\ store = <<1>>

\* The pending units up to and including the unit named by the string s.
UpTo(records, s) ==
    LET p == pending(records)
    IN SubSeq(p, 1, CHOOSE k \in 1..Len(p) : IdOf(p[k]) = s)

\* C2: `db:migrate <to>` with `to` the id of a pending unit applies the
\* pending units up to and including `to`, one after the other in ascending
\* id order, and never a unit after `to`: at every moment the units applied
\* are a prefix of that sequence, and when the run succeeds they are all of
\* it and the pending units after `to` are still pending.
C2_BoundedUp ==
    (/\ task = TMigrate
     /\ call.op = "up"
     /\ options.migrateTo.type = "string"
     /\ \E u \in Range(pending(startStore)) : IdOf(u) = options.migrateTo.str)
        => LET target == UpTo(startStore, options.migrateTo.str)
               rest == SubSeq(pending(startStore), Len(target) + 1,
                              Len(pending(startStore)))
           IN /\ IsPrefix(call.done, target)
              /\ \A k \in 1..(Len(call.done) - 1) : call.done[k] < call.done[k + 1]
              /\ store = startStore \o call.done
              /\ SubSeq(out, 1, 2 * Len(call.done)) = UpEvents(call.done)
              /\ IsSuffix(rest, pending(store))
              /\ Range(rest) \cap Range(store) = {}
              /\ ExitedWith(0) => /\ call.done = target
                                  /\ pending(store) = rest
                                  /\ out[Len(out)] =
                                         Line("Executed migrations.", Len(target),
                                              0, <<>>)

C2_Witness ==
    /\ ExitedWith(0)
    /\ task = TMigrate
    /\ options.migrateTo = Str(IdOf(2))
    /\ startStore = <<>>
    /\ call.done = <<1, 2>>
    /\ pending(store) = <<3>>

\* The largest id with a record.
LastId(records) == CHOOSE x \in Range(records) : \A y \in Range(records) : y <= x

\* C3: `db:migrate:undo` without an argument, on a store that is not empty,
\* reverts at most the unit with the largest id (whatever the order the
\* records were inserted in) and, when it succeeds, exactly that unit; every
\* other record stays as it was.
C3_DefaultDown ==
    (task = TUndo /\ options.undoTo = Undefined /\ startStore # <<>>)
        => LET last == LastId(startStore)
           IN /\ store \in {startStore,
                            SelectSeq(startStore, LAMBDA x : x # last)}
              /\ IsPrefix(call.done, <<last>>)
              /\ ExitedWith(0) =>
                     /\ call.done = <<last>>
                     /\ store = SelectSeq(startStore, LAMBDA x : x # last)
                     /\ out = DownEvents(<<last>>)
                                  \o <<Line("Reverted migrations.", 1, 0, <<>>)>>

C3_Witness ==
    /\ ExitedWith(0)
    /\ task = TUndo
    /\ options.undoTo = Undefined
    /\ startStore = <<1, 3, 2>>
    /\ call.done = <<3>>
    /\ store = <<1, 2>>
    /\ executed(store) = <<1, 2>>

\* C4: a whole up() that succeeds leaves every loaded unit executed, and a
\* down(0) (`db:migrate:undo:all`) that follows it and succeeds reverts them
\* all, latest id first, and leaves executed() empty and pending() equal to
\* the loaded unit list.
C4_RoundTrip ==
    /\ (prev /\ pc # "shell") => Range(startStore) = Units
    /\ (prev /\ task = TUndoAll /\ ExitedWith(0))
           => /\ store = <<>>
              /\ executed(store) = <<>>
              /\ pending(store) = listAll
              /\ call.done = Reverse(listAll)

C4_Witness ==
    /\ prev
    /\ task = TUndoAll
    /\ ExitedWith(0)
    /\ store = <<>>
    /\ Len(call.done) = NumUnits

\* The item lines of the console, as the sequence of the units they name.
PrintedItems ==
    LET items == SelectSeq(out, LAMBDA l : l.text = "item")
    IN [k \in 1..Len(items) |-> items[k].id]

PrintedNumbers ==
    LET items == SelectSeq(out, LAMBDA l : l.text = "item")
    IN [k \in 1..Len(items) |-> items[k].n]

\* C5: in every state the executed ids are loaded unit ids, none is recorded
\* twice, and pending() is the ascending sequence of the loaded ids without a
\* record; `db:migrate:status` prints exactly that sequence and
\* `db:migrate:history` exactly the executed ids in ascending order.
C5_Partition ==
    /\ Range(store) \subseteq Units
    /\ Cardinality(Range(store)) = Len(store)
    /\ pending(store) = Ascending(Units \ Range(executed(store)))
    /\ Range(pending(store)) \cap Range(executed(store)) = {}
    /\ Len(pending(store)) + Len(executed(store)) = NumUnits
    /\ (task = TStatus /\ ExitedWith(0))
           => /\ PrintedItems = Ascending(Units \ Range(store))
              /\ PrintedNumbers = [k \in 1..Len(PrintedItems) |-> k]
    /\ (task = THistory /\ ExitedWith(0))
           => /\ PrintedItems = Ascending(Range(store))
              /\ PrintedNumbers = [k \in 1..Len(PrintedItems) |-> k]

C5_Witness ==
    /\ ExitedWith(0)
    /\ task = TStatus
    /\ store = <<3, 1>>
    /\ PrintedItems = <<2>>

NoUnitEvent ==
    \A k \in 1..Len(out) :
        out[k].text \notin {"migrating", "migrated", "reverting", "reverted"}

\* C6: `db:migrate:check` runs no unit and leaves the store as it was; it
\* exits 0 only when the pending set is empty, exits 1 whenever the pending
\* set is not empty, and when pending() has returned it exits 1 exactly when
\* the pending set is not empty.
C6_Check ==
    (task = TCheck)
        => /\ store = startStore
           /\ call = NoCall
           /\ NoUnitEvent
           /\ Exited =>
                  /\ exit.done
                  /\ exit.code \in {0, 1}
                  /\ exit.code = 0 => pending(store) = <<>>
                  /\ pending(store) # <<>> => exit.code = 1
                  /\ err = NoErr =>
                         (exit.code = 1 <=> pending(store) # <<>>)

C6_Witness ==
    /\ ExitedWith(1)
    /\ task = TCheck
    /\ err = NoErr
    /\ pending(store) = <<2, 3>>

C6_WitnessNonePending ==
    /\ ExitedWith(0)
    /\ task = TCheck
    /\ pending(store) = <<>>

\* C7 as stated: without a known verb the usage help is printed, the exit
\* code is 1 when a verb (a non-empty argv[2]) was given and 0 when none
\* was, and no engine operation is invoked.
C7_Original ==
    (Exited /\ task \notin KnownTasks)
        => /\ HasLine("Available tasks:")
           /\ exit = [done |-> TRUE, code |-> IF Truthy(task) THEN 1 ELSE 0]
           /\ call = NoCall
           /\ store = startStore

\* C7, amended: without a verb (argv[2] absent or the empty string) the usage
\* help is printed and the exit code is 0; with a non-empty verb that is not
\* a known one the usage help is not printed, `Error: Task not found.` is,
\* and the exit code is 1; in both cases no engine operation is invoked.
C7_UnknownVerb ==
    (task \notin KnownTasks)
        => /\ call = NoCall
           /\ store = startStore
           /\ NoUnitEvent
           /\ Exited =>
                  IF Truthy(task)
                  THEN /\ out = <<Line("Error:", 0, 0, <<"Task not found.">>)>>
                       /\ exit = [done |-> TRUE, code |-> 1]
                  ELSE /\ out = <<Usage>>
                       /\ exit = [done |-> TRUE, code |-> 0]

C7_Witness ==
    /\ ExitedWith(1)
    /\ task = Str(<<"db:frobnicate">>)
    /\ ~HasLine("Available tasks:")

\* The steps of a running process.
Step ==
    \/ CheckMigrations
    \/ Migrate
    \/ UnitUp
    \/ MigrateReturn
    \/ Undo
    \/ UnitDown
    \/ UndoReturn
    \/ PrintPending
    \/ PrintExecuted
    \/ Generate
    \/ Default
    \/ Then
    \/ Catch

\* C8: for every verb, an error raised while the verb runs is reported as
\* `Error: <message>` on the last line and the exit code is 1; a verb that
\* completes without error exits 0, except `db:migrate:check` with pending
\* units, which exits 1; a process that has started and not exited can
\* always take a step, and it never exits without an exit code.
C8_ErrorsExitOne ==
    /\ err # NoErr => pc \in {"catch", "exited"}
    /\ pc \notin {"shell", "exited"} => ENABLED Step
    /\ Exited =>
           /\ exit.done
           /\ exit.code \in {0, 1}
           /\ err # NoErr => /\ exit.code = 1
                             /\ out[Len(out)] = ErrorLine(err)
           /\ err = NoErr =>
                  /\ exit.code = (IF task = TCheck /\ pending(store) # <<>>
                                  THEN 1 ELSE 0)
                  /\ \A k \in 1..Len(out) : out[k].text # "Error:"

C8_Witness ==
    /\ ExitedWith(1)
    /\ task = TGenerate
    /\ err.message = <<"read error">>
    /\ out = <<ErrorLine(err)>>

C8_WitnessSuccess ==
    /\ ExitedWith(0)
    /\ task = TReset
    /\ err = NoErr

TwoDigits(n) == <<DigitChar[(n \div 10) + 1], DigitChar[(n % 10) + 1]>>

\* YYYYMMDDHHMMSS of an instant, the month counted from 1.
Stamp14(d) ==
    TwoDigits(d.year \div 100) \o TwoDigits(d.year % 100)
        \o TwoDigits(d.month + 1) \o TwoDigits(d.date) \o TwoDigits(d.hours)
        \o TwoDigits(d.minutes) \o TwoDigits(d.seconds)

Copied == task = TGenerate /\ file.exists /\ err = NoErr

\* C9 as stated: the file generate creates is named <timestamp>-<name>.
C9_Original ==
    Copied
        => /\ file.name = Stamp14(now) \o <<"-">> \o options.migrationName.str
           /\ file.content = Template

\* C9, amended: `migration:generate <name>` creates a file named
\* <timestamp>-<name>.js, the timestamp being the 14 digits YYYYMMDDHHMMSS of
\* the UTC fields of the instant (a four-digit year; month from 1; month,
\* day, hour, minute and second zero-padded to two digits), with the content
\* of the template; without a name no file is created and the exit code is 1.
C9_Generate ==
    /\ Copied
           => /\ file.name = Stamp14(now) \o <<"-">>
                                 \o options.migrationName.str \o <<".js">>
              /\ Len(Stamp14(now)) = 14
              /\ \A k \in 1..14 : file.name[k] \in Range(DigitChar)
              /\ file.content = Template
    /\ (task = TGenerate /\ ~Truthy(options.migrationName))
           => /\ file = NoFile
              /\ pc # "runTask" => err.message = <<"Migration name should be specified.">>
              /\ Exited => exit = [done |-> TRUE, code |-> 1]

C9_Witness ==
    /\ ExitedWith(0)
    /\ task = TGenerate
    /\ options.migrationName = Str(<<"add-index">>)
    /\ now.year = 2023
    /\ file.name = <<"2", "0", "2", "3", "0", "9", "0", "9", "0", "9", "0", "9",
                     "0", "9", "-", "add-index", ".js">>
    /\ file.content = Template

C9_WitnessNoName ==
    /\ ExitedWith(1)
    /\ task = TGenerate
    /\ options.migrationName = Undefined
    /\ file = NoFile

\* C10: in `db:reset` no unit's up is started before down(0) has completed:
\* when a down fails no up is run, the units already reverted stay without a
\* record (the others keep theirs) and the exit code is 1; when both phases
\* succeed every loaded unit is executed and pending() is empty.
C10_Reset ==
    (task = TReset)
        => /\ (call.op = "up" \/ HasLine("migrating"))
                  => /\ stage >= 2
                     /\ IsPrefix(DownEvents(Reverse(executed(startStore))), out)
                     /\ call.plan = listAll
           /\ (err # NoErr /\ call.op # "up")
                  => /\ ~HasLine("migrating")
                     /\ IsPrefix(call.done, Reverse(executed(startStore)))
                     /\ store = SelectSeq(startStore,
                                          LAMBDA x : x \notin Range(call.done))
                     /\ Exited => exit = [done |-> TRUE, code |-> 1]
           /\ ExitedWith(0) => /\ Range(store) = Units
                               /\ pending(store) = <<>>
                               /\ store = listAll

C10_Witness ==
    /\ ExitedWith(1)
    /\ task = TReset
    /\ err.name = "UnitExecutionError"
    /\ call.op = "down"
    /\ startStore = <<1, 2, 3>>
    /\ call.done = <<3>>
    /\ store = <<1, 2>>
    /\ ~HasLine("migrating")

C10_WitnessSuccess ==
    /\ ExitedWith(0)
    /\ task = TReset
    /\ startStore = <<2, 1>>
    /\ store = listAll

====
